---- MODULE Spec2Model ----
(***************************************************************************)
(* Model of the MySQL query gateway of src/src/mcp_server.py: the query    *)
(* validator (is_safe_query, is_sql_injection, contains_sensitive_field),  *)
(* the read-only transactional executor inside query_data, the global      *)
(* pagination slot (pagination_state, get_page_data, next_page, prev_page) *)
(* and the session store (ConversationSession, conversation_sessions).     *)
(*                                                                         *)
(* SQL texts are TLA+ strings; a character is a string of length 1.        *)
(* The Chinese error literals of the source are rendered in English.       *)
(***************************************************************************)
EXTENDS Integers, Sequences, FiniteSets, TLC

(***************************************************************************)
(* Characters and the str methods the validator uses                       *)
(***************************************************************************)

\* s[i] of a Python str, as a string of length 1
Ch(s, i) == SubSeq(s, i, i)

UpperCase == <<"A","B","C","D","E","F","G","H","I","J","K","L","M",
               "N","O","P","Q","R","S","T","U","V","W","X","Y","Z">>

LowerCase == <<"a","b","c","d","e","f","g","h","i","j","k","l","m",
               "n","o","p","q","r","s","t","u","v","w","x","y","z">>

Digits == {"0","1","2","3","4","5","6","7","8","9"}

\* the characters str.strip()/str.lstrip() remove and the regex class \s matches
IsSpace(c) == c \in {" ", "\t", "\n", "\r", "\f"}

\* the regex class \w
IsWordChar(c) ==
    \/ \E k \in 1..26 : c = UpperCase[k] \/ c = LowerCase[k]
    \/ c \in Digits
    \/ c = "_"

ToLowerChar(c) ==
    IF \E k \in 1..26 : c = UpperCase[k]
    THEN LowerCase[CHOOSE k \in 1..26 : c = UpperCase[k]]
    ELSE c

RECURSIVE LowerFrom(_, _)
LowerFrom(s, i) ==
    IF i > Len(s) THEN "" ELSE ToLowerChar(Ch(s, i)) \o LowerFrom(s, i + 1)

\* str.lower()
Lower(s) == LowerFrom(s, 1)

\* index of the first character of s at or after i that is not white space
RECURSIVE SkipSpaces(_, _)
SkipSpaces(s, i) ==
    IF i <= Len(s) /\ IsSpace(Ch(s, i)) THEN SkipSpaces(s, i + 1) ELSE i

\* index of the last character of s at or before i that is not white space
RECURSIVE SkipSpacesBack(_, _)
SkipSpacesBack(s, i) ==
    IF i >= 1 /\ IsSpace(Ch(s, i)) THEN SkipSpacesBack(s, i - 1) ELSE i

\* str.lstrip()
LStrip(s) == SubSeq(s, SkipSpaces(s, 1), Len(s))

\* str.strip()
Strip(s) == SubSeq(s, SkipSpaces(s, 1), SkipSpacesBack(s, Len(s)))

\* the literal w occurs in s starting at index i
StartsWithAt(s, w, i) ==
    /\ i >= 1
    /\ i + Len(w) - 1 <= Len(s)
    /\ SubSeq(s, i, i + Len(w) - 1) = w

\* Python's  w in s
Contains(s, w) == \E i \in 1..(Len(s) + 1) : StartsWithAt(s, w, i)

IsWordAt(s, i) == i >= 1 /\ i <= Len(s) /\ IsWordChar(Ch(s, i))

\* the regex assertion \b holds in s between index i-1 and index i
WordBoundary(s, i) == IsWordAt(s, i - 1) # IsWordAt(s, i)

(***************************************************************************)
(* Regular expressions of is_sql_injection: a pattern is a sequence of     *)
(* literals and of the two white-space repetitions                         *)
(***************************************************************************)
WS0 == "<\\s*>"
WS1 == "<\\s+>"

RECURSIVE MatchFrom(_, _, _, _)
MatchFrom(pat, k, s, i) ==
    IF k > Len(pat) THEN TRUE
    ELSE IF pat[k] = WS0
         THEN \E j \in i..SkipSpaces(s, i) : MatchFrom(pat, k + 1, s, j)
    ELSE IF pat[k] = WS1
         THEN \E j \in (i + 1)..SkipSpaces(s, i) : MatchFrom(pat, k + 1, s, j)
    ELSE /\ StartsWithAt(s, pat[k], i)
         /\ MatchFrom(pat, k + 1, s, i + Len(pat[k]))

\* re.search(pat, s)
ReSearch(pat, s) == \E i \in 1..(Len(s) + 1) : MatchFrom(pat, 1, s, i)

(***************************************************************************)
(* QueryValidator                                                          *)
(***************************************************************************)
allowed_prefixes == <<"select", "show", "desc", "describe", "explain">>

dangerous_keywords == <<"insert", "update", "delete", "drop", "create", "alter",
                        "truncate", "replace", "merge", "call", "exec", "execute">>

SENSITIVE_FIELDS == <<"password", "salary", "ssn", "credit_card">>

\* re.match(rf"^{prefix}(\s|\(|\*|\b)", sql_lower)
PrefixMatch(sql_lower, prefix) ==
    /\ StartsWithAt(sql_lower, prefix, 1)
    /\ LET j == Len(prefix) + 1
       IN  \/ /\ j <= Len(sql_lower)
              /\ \/ IsSpace(Ch(sql_lower, j))
                 \/ Ch(sql_lower, j) = "("
                 \/ Ch(sql_lower, j) = "*"
           \/ WordBoundary(sql_lower, j)

\* the for/else of is_safe_query: some allowed prefix matches
HasAllowedPrefix(sql) ==
    LET sql_lower == Lower(LStrip(sql))
    IN  \E p \in 1..Len(allowed_prefixes) : PrefixMatch(sql_lower, allowed_prefixes[p])

\* any(keyword in sql_lower for keyword in dangerous_keywords)
HasDangerousKeyword(sql) ==
    LET sql_lower == Lower(LStrip(sql))
    IN  \E k \in 1..Len(dangerous_keywords) : Contains(sql_lower, dangerous_keywords[k])

\* mutant: the prefix whitelist is left out
is_safe_query_no_prefix(sql) == ~HasDangerousKeyword(sql)

\* mutant: the keywords are looked up in the text as typed, not lower-cased
is_safe_query_case_sensitive(sql) ==
    /\ HasAllowedPrefix(sql)
    /\ ~\E k \in 1..Len(dangerous_keywords) : Contains(LStrip(sql), dangerous_keywords[k])

is_safe_query(sql) ==
    IF ~HasAllowedPrefix(sql) THEN FALSE
    ELSE IF HasDangerousKeyword(sql) THEN FALSE
    ELSE TRUE

\* re.search(r'\b' + re.escape(field.lower()) + r'\b', sql_lower)
FieldMatch(sql_lower, field) ==
    \E i \in 1..(Len(sql_lower) + 1) :
        /\ WordBoundary(sql_lower, i)
        /\ StartsWithAt(sql_lower, field, i)
        /\ WordBoundary(sql_lower, i + Len(field))

\* mutant: substring match, without the \b assertions
contains_sensitive_field_substring(sql) ==
    \E f \in 1..Len(SENSITIVE_FIELDS) : Contains(Lower(sql), Lower(SENSITIVE_FIELDS[f]))

contains_sensitive_field(sql) ==
    LET sql_lower == Lower(sql)
    IN  \E f \in 1..Len(SENSITIVE_FIELDS) : FieldMatch(sql_lower, Lower(SENSITIVE_FIELDS[f]))

injection_patterns == <<
    <<"or", WS0, "1", WS0, "=", WS0, "1">>,
    <<"union", WS1, "select">>,
    <<";", WS0, "drop", WS1>>,
    <<";", WS0, "insert", WS1>>,
    <<";", WS0, "update", WS1>>,
    <<";", WS0, "delete", WS1>>,
    <<"and", WS1, "sleep", WS0, "(">>,
    <<"benchmark", WS0, "(">>,
    <<"and", WS0, "(", WS0, "select">>,
    <<"and", WS1, "exists", WS0, "(">>,
    <<"and", WS0, "(", WS0, "1", WS0, "=", WS0, "1">>,
    <<"or", WS0, "(", WS0, "1", WS0, "=", WS0, "1">>,
    <<"or", WS0, "1", WS0, "=", WS0, "1--">>,
    <<"or", WS0, "1", WS0, "=", WS0, "1#">> >>

\* some signature of injection_patterns is found in the stripped, lower-cased text
MatchesSignature(sql) ==
    LET sql_lower == Lower(Strip(sql))
    IN  \E p \in 1..Len(injection_patterns) : ReSearch(injection_patterns[p], sql_lower)

\* What libinjection.is_sql_injection(sql) can do: report is_sqli true, report
\* is_sqli false, or raise.
LibinjectionOutcomes == {"sqli", "clean", "raise"}

\* mutant: the classifier's flag alone rejects
is_sql_injection_flag_only(sql, libinj) == libinj = "sqli"

\* mutant: when the classifier raises, the signatures alone decide
is_sql_injection_signatures_on_raise(sql, libinj) ==
    IF libinj \in {"sqli", "raise"} THEN MatchesSignature(sql) ELSE FALSE

\* libinj is what the external classifier does on this statement
is_sql_injection(sql, libinj) ==
    IF libinj = "raise" THEN FALSE
    ELSE IF libinj = "sqli" THEN MatchesSignature(sql)
    ELSE FALSE

(***************************************************************************)
(* Inputs                                                                  *)
(***************************************************************************)

\* statements that pass every gate
AdmittedPool == {
    "SELECT * FROM student",
    "select * from course" }

\* statements chosen to exercise each validator gate and its boundary cases
GatePool == AdmittedPool \cup {
    "",
    "DELETE FROM student WHERE id=1;",
    "  \tUPDATE student SET name='abc'",
    "selectx FROM student",
    "select_1",
    "descr student",
    "\n select(1)",
    "Select*from student",
    "select",
    "SHOW TABLES;",
    "DESC student;",
    "describe student",
    "EXPLAIN SELECT * FROM student;",
    "SELECT * FROM student; DROP TABLE student;",
    "select 1; ExEcUtE p",
    "SELECT created_at FROM log",
    "SELECT * FROM updates",
    "show CREATE table student",
    "SELECT * FROM user WHERE id=1 OR 1=1;",
    "SELECT * FROM user WHERE id=1 or\t( 1 = 1 )",
    "SELECT * FROM user UNION  SELECT * FROM admin;",
    "SELECT * FROM user WHERE id=1 AND SLEEP(5);",
    "SELECT * FROM user WHERE id=1 # note",
    "SELECT password FROM user WHERE id=1 OR 1=1",
    "SELECT password FROM user;",
    "SELECT name, SALARY FROM employee;",
    "select a.ssn,b from person",
    "SELECT credit_card FROM payment;",
    "SELECT password_policy FROM config;",
    "SELECT mypassword, ssn2 FROM config",
    "select name as Password from user",
    "select * from person where note='ssn'" }

\* the statements of the gateway specification: one rejected by each gate the
\* code tells apart, and the admitted ones
SqlPool == AdmittedPool \cup {
    "DROP TABLE student;",
    "SELECT * FROM user WHERE id=1 OR 1=1;",
    "SELECT password FROM user;" }

SessionIds == {"s1", "s2"}

UserMessages == {"list them"}

\* every statement text the specifications submit
AllSql == GatePool \cup SqlPool

(***************************************************************************)
(* The validator and the normalisation, tabulated over the statements      *)
(* submitted: query_data reads the verdicts here                           *)
(***************************************************************************)
SafeQuery == [s \in AllSql |-> is_safe_query(s)]

SqlInjection == [s \in AllSql |-> [l \in LibinjectionOutcomes |-> is_sql_injection(s, l)]]

SensitiveField == [s \in AllSql |-> contains_sensitive_field(s)]

\* sql.strip().lower()
Normalize(sql) == Lower(Strip(sql))

Normalized ==
    [s \in AllSql \cup {Normalize(q) : q \in AllSql} \cup {""} |-> Normalize(s)]

(***************************************************************************)
(* ResultPager: get_page_data                                              *)
(***************************************************************************)
Min(a, b) == IF a <= b THEN a ELSE b

Max(a, b) == IF a >= b THEN a ELSE b

\* Python's a // b, b # 0
FloorDiv(a, b) == IF b > 0 THEN a \div b ELSE (0 - a) \div (0 - b)

\* Python's seq[a:b]
PySlice(seq, a, b) ==
    LET n  == Len(seq)
        na == IF a < 0 THEN Max(a + n, 0) ELSE Min(a, n)
        nb == IF b < 0 THEN Max(b + n, 0) ELSE Min(b, n)
    IN  SubSeq(seq, na + 1, nb)

\* get_page_data raises ZeroDivisionError
get_page_data_raises(results, page, page_size) ==
    Len(results) > 0 /\ page_size = 0

\* mutant: the slice includes the row at end_idx
get_page_data_inclusive_end(results, page, page_size) ==
    LET total_rows  == Len(results)
        total_pages == IF total_rows > 0
                       THEN FloorDiv(total_rows + page_size - 1, page_size)
                       ELSE 0
        start_idx   == page * page_size
        end_idx     == Min(start_idx + page_size + 1, total_rows)
        page_data   == IF start_idx < total_rows
                       THEN PySlice(results, start_idx, end_idx)
                       ELSE <<>>
    IN  [data       |-> page_data,
         pagination |-> [current_page |-> page,
                         total_pages  |-> total_pages,
                         page_size    |-> page_size,
                         total_rows   |-> total_rows,
                         has_next     |-> page < total_pages - 1,
                         has_prev     |-> page > 0,
                         showing_rows |-> IF page_data # <<>>
                                          THEN <<start_idx + 1, end_idx>>
                                          ELSE <<0, 0>>]]

\* mutant: total_pages rounds down
get_page_data_rounds_down(results, page, page_size) ==
    LET total_rows  == Len(results)
        total_pages == IF total_rows > 0 THEN FloorDiv(total_rows, page_size) ELSE 0
        start_idx   == page * page_size
        end_idx     == Min(start_idx + page_size, total_rows)
        page_data   == IF start_idx < total_rows
                       THEN PySlice(results, start_idx, end_idx)
                       ELSE <<>>
    IN  [data       |-> page_data,
         pagination |-> [current_page |-> page,
                         total_pages  |-> total_pages,
                         page_size    |-> page_size,
                         total_rows   |-> total_rows,
                         has_next     |-> page < total_pages - 1,
                         has_prev     |-> page > 0,
                         showing_rows |-> IF page_data # <<>>
                                          THEN <<start_idx + 1, end_idx>>
                                          ELSE <<0, 0>>]]

\* showing_rows is the pair <<first, last>> the code formats as "first-last"
get_page_data(results, page, page_size) ==
    LET total_rows  == Len(results)
        total_pages == IF total_rows > 0
                       THEN FloorDiv(total_rows + page_size - 1, page_size)
                       ELSE 0
        start_idx   == page * page_size
        end_idx     == Min(start_idx + page_size, total_rows)
        page_data   == IF start_idx < total_rows
                       THEN PySlice(results, start_idx, end_idx)
                       ELSE <<>>
    IN  [data       |-> page_data,
         pagination |-> [current_page |-> page,
                         total_pages  |-> total_pages,
                         page_size    |-> page_size,
                         total_rows   |-> total_rows,
                         has_next     |-> page < total_pages - 1,
                         has_prev     |-> page > 0,
                         showing_rows |-> IF page_data # <<>>
                                          THEN <<start_idx + 1, end_idx>>
                                          ELSE <<0, 0>>]]

(***************************************************************************)
(* Pagination state: last_results is None or the tuple fetchall returned   *)
(***************************************************************************)
NoResults == [is_none |-> TRUE, rows |-> <<>>]

Results(rows) == [is_none |-> FALSE, rows |-> rows]

\* Python truth value of last_results: None and the empty tuple are false
Truthy(last_results) == ~last_results.is_none /\ Len(last_results.rows) > 0

DefaultPageSize == 50

InitialPagination ==
    [last_sql     |-> "",
     last_results |-> NoResults,
     current_page |-> 0,
     page_size    |-> DefaultPageSize,
     total_rows   |-> 0]

reset_pagination(ps) ==
    [ps EXCEPT !.last_sql     = "",
               !.last_results = NoResults,
               !.current_page = 0,
               !.total_rows   = 0]

(***************************************************************************)
(* SessionStore                                                            *)
(***************************************************************************)
MAX_CONTEXT_LENGTH == 10

CONTEXT_EXPIRE_TIME == 3600

\* ConversationSession.__init__ at time t
ConversationSession(session_id, t) ==
    [session_id    |-> session_id,
     context       |-> <<>>,
     last_activity |-> t,
     metadata      |-> [created_at         |-> t,
                        total_queries      |-> 0,
                        successful_queries |-> 0,
                        failed_queries     |-> 0]]

\* mutant: a full history drops the arriving item instead of the oldest
DequeAppend_keeps_oldest(context, item) ==
    IF Len(context) >= MAX_CONTEXT_LENGTH
    THEN context
    ELSE Append(context, item)

\* deque(maxlen=MAX_CONTEXT_LENGTH).append
DequeAppend(context, item) ==
    IF Len(context) >= MAX_CONTEXT_LENGTH
    THEN Append(Tail(context), item)
    ELSE Append(context, item)

\* result.get("success", False)
GetSuccess(result) == IF "success" \in DOMAIN result THEN result.success ELSE FALSE

\* ConversationSession.add_context at time t
add_context(session, sql, result, user_message, t) ==
    LET context_item == [timestamp    |-> t,
                         sql          |-> sql,
                         result       |-> result,
                         user_message |-> user_message,
                         success      |-> GetSuccess(result)]
    IN  [session EXCEPT
            !.context       = DequeAppend(@, context_item),
            !.last_activity = t,
            !.metadata.total_queries      = @ + 1,
            !.metadata.successful_queries = IF GetSuccess(result) THEN @ + 1 ELSE @,
            !.metadata.failed_queries     = IF GetSuccess(result) THEN @ ELSE @ + 1]

\* session.add_context called once for each result of results, in order
RECURSIVE RecordAll(_, _, _, _, _)
RecordAll(session, sql, results, user_message, t) ==
    IF results = <<>> THEN session
    ELSE RecordAll(add_context(session, sql, Head(results), user_message, t),
                   sql, Tail(results), user_message, t)

\* list(self.context)[-3:]
LastThree(context) ==
    SubSeq(context, Max(Len(context) - 2, 1), Len(context))

get_context_summary(session) ==
    [session_id     |-> session.session_id,
     context_length |-> Len(session.context),
     last_activity  |-> session.last_activity,
     metadata       |-> session.metadata,
     recent_queries |-> LastThree(session.context)]

\* mutant: a session idle for exactly the TTL is expired
is_expired_at_ttl(session, t) == t - session.last_activity >= CONTEXT_EXPIRE_TIME

\* ConversationSession.is_expired at time t
is_expired(session, t) == t - session.last_activity > CONTEXT_EXPIRE_TIME

\* mutant: looking a session up refreshes the activity of every session
get_or_create_session_touches_all(sessions, session_id, t) ==
    [s \in DOMAIN sessions \cup {session_id} |->
        IF s \in DOMAIN sessions
        THEN [sessions[s] EXCEPT !.last_activity = t]
        ELSE ConversationSession(session_id, t)]

\* the session map after get_or_create_session(session_id) at time t
get_or_create_session(sessions, session_id, t) ==
    IF session_id \notin DOMAIN sessions
    THEN [s \in DOMAIN sessions \cup {session_id} |->
             IF s = session_id THEN ConversationSession(session_id, t) ELSE sessions[s]]
    ELSE sessions

\* mutant: the sweep removes nothing
cleanup_expired_sessions_keeps_all(sessions, t) == sessions

\* mutant: the sweep refreshes the activity of the sessions it keeps
cleanup_expired_sessions_touches_kept(sessions, t) ==
    LET expired_sessions == {s \in DOMAIN sessions : is_expired(sessions[s], t)}
    IN  [s \in DOMAIN sessions \ expired_sessions |->
            [sessions[s] EXCEPT !.last_activity = t]]

\* the session map after cleanup_expired_sessions() at time t
cleanup_expired_sessions(sessions, t) ==
    LET expired_sessions == {s \in DOMAIN sessions : is_expired(sessions[s], t)}
    IN  [s \in DOMAIN sessions \ expired_sessions |-> sessions[s]]

\* del conversation_sessions[session_id]
DelSession(sessions, session_id) ==
    [s \in DOMAIN sessions \ {session_id} |-> sessions[s]]

(***************************************************************************)
(* The backing store as query_data sees it.  The driver calls of one       *)
(* query are made in the order of DriverSteps; env says what the           *)
(* environment does during the call:                                       *)
(*   env.libinj           what the injection classifier does               *)
(*   env.fault            the driver call that raises, or "none"           *)
(*   env.rollback_raises  conn.rollback() raises when it is called         *)
(*   env.nrows            the number of rows the statement yields          *)
(* cursor.close() and conn.close() are taken not to raise.  In the list of  *)
(* driver calls a query made, a call that raised is followed by Raised.    *)
(***************************************************************************)
DriverSteps == <<"connect", "cursor", "set_read_only", "start_transaction",
                 "execute", "fetchall", "commit">>

DriverFaults == {"none"} \cup {DriverSteps[i] : i \in 1..Len(DriverSteps)}

\* the driver calls attempted up to and including the one that raises
AttemptedSteps(fault) ==
    IF fault = "none" THEN DriverSteps
    ELSE SubSeq(DriverSteps, 1, CHOOSE i \in 1..Len(DriverSteps) : DriverSteps[i] = fault)

\* follows, in the list of driver calls, a call that raised
Raised == "raise"

\* str(e) of the exception a driver call raises
DriverError(call) == "MySQLdb.Error in " \o call

ZeroDivisionMessage == "integer division or modulo by zero"

\* cursor.fetchall(): the rows of the statement, each tagged with its statement
FetchAll(sql, nrows) == [i \in 1..nrows |-> [stmt |-> sql, row |-> i]]

ErrNotReadOnly == "Only read-only queries (SELECT) are allowed"

ErrInjection == "Suspected SQL injection detected, execution refused"

ErrSensitive == "Query contains a sensitive field, execution refused"

ErrNoResults == "No previous query results to paginate"

ErrLastPage == "Already at the last page"

ErrFirstPage == "Already at the first page"

Failure(error) == [success |-> FALSE, error |-> error]

\* mutant: a new statement keeps the page size of the old one
BeginPagination_keeps_page_size(ps, sql, page, page_size) ==
    IF Normalized[sql] # Normalized[ps.last_sql]
    THEN [reset_pagination(ps) EXCEPT !.last_sql = Normalized[sql]]
    ELSE [ps EXCEPT !.current_page = page]

\* lines 465-477 of query_data: a new statement resets the slot, the same
\* statement only moves the cursor
BeginPagination(ps, sql, page, page_size) ==
    IF Normalized[sql] # Normalized[ps.last_sql]
    THEN [reset_pagination(ps) EXCEPT !.last_sql  = Normalized[sql],
                                      !.page_size = page_size]
    ELSE [ps EXCEPT !.current_page = page]

\* mutant: the finally block closes the cursor and forgets the connection
Closing_forgets_connection(cursor_open, conn_open) ==
    IF cursor_open THEN <<"cursor.close">> ELSE <<>>

\* lines 546-551 of query_data: the finally block closes what was opened
Closing(cursor_open, conn_open) ==
    (IF cursor_open THEN <<"cursor.close">> ELSE <<>>)
    \o (IF conn_open THEN <<"conn.close">> ELSE <<>>)

\* lines 479-551 of query_data: the transactional executor and the paging of
\* its result, from pagination state ps.  Each exit passes its result to
\* session.add_context once, just before it returns.
Execute(ps, sql, page, page_size, env) ==
    LET fault       == env.fault
        attempted   == AttemptedSteps(fault)
                       \o (IF fault = "none" THEN <<>> ELSE <<Raised>>)
        conn_open   == fault # "connect"
        cursor_open == fault \notin {"connect", "cursor"}
        in_inner    == fault \in {"none", "execute", "fetchall", "commit"}
        results     == FetchAll(sql, env.nrows)
        stored      == [ps EXCEPT !.last_results = Results(results),
                                  !.total_rows   = Len(results)]
        page_raises == fault = "none" /\ get_page_data_raises(results, page, page_size)
        inner_error == in_inner /\ (fault # "none" \/ page_raises)
        inner_msg   == IF fault # "none" THEN DriverError(fault) ELSE ZeroDivisionMessage
        page_info   == get_page_data(results, page, page_size)
        closing     == Closing(cursor_open, conn_open)
    IN  IF ~in_inner
        THEN [exit       |-> "connection_error",
              result     |-> Failure(DriverError(fault)),
              pagination |-> ps,
              acquired   |-> conn_open,
              calls      |-> attempted \o closing]
        ELSE IF inner_error /\ env.rollback_raises
        THEN [exit       |-> "connection_error",
              result     |-> Failure(DriverError("rollback")),
              pagination |-> IF fault = "none" THEN stored ELSE ps,
              acquired   |-> TRUE,
              calls      |-> attempted \o <<"rollback", Raised>> \o closing]
        ELSE IF inner_error
        THEN [exit       |-> "sql_error",
              result     |-> Failure(inner_msg),
              pagination |-> IF fault = "none" THEN stored ELSE ps,
              acquired   |-> TRUE,
              calls      |-> attempted \o <<"rollback">> \o closing]
        ELSE [exit       |-> "ok",
              result     |-> [success    |-> TRUE,
                              results    |-> page_info.data,
                              rowCount   |-> Len(page_info.data),
                              totalRows  |-> page_info.pagination.total_rows,
                              pagination |-> page_info.pagination],
              pagination |-> stored,
              acquired   |-> TRUE,
              calls      |-> attempted \o closing]

\* a validator gate rejects: the result is recorded and returned
Rejected(exit, consulted, error, ps) ==
    [exit |-> exit, consulted |-> consulted, result |-> Failure(error),
     recorded |-> <<Failure(error)>>, pagination |-> ps,
     acquired |-> FALSE, calls |-> <<>>]

\* the statement passed the gates: lines 465-551
Admit(ps, sql, page, page_size, env) ==
    LET x == Execute(BeginPagination(ps, sql, page, page_size), sql, page, page_size, env)
    IN  [exit |-> x.exit, consulted |-> TRUE, result |-> x.result,
         recorded |-> <<x.result>>, pagination |-> x.pagination,
         acquired |-> x.acquired, calls |-> x.calls]

\* mutant: the sensitive-field gate is left out
query_data_skips_sensitive(ps, sql, page, page_size, env) ==
    IF ~SafeQuery[sql]
    THEN Rejected("unsafe", FALSE, ErrNotReadOnly, ps)
    ELSE IF SqlInjection[sql][env.libinj]
    THEN Rejected("injection", TRUE, ErrInjection, ps)
    ELSE Admit(ps, sql, page, page_size, env)

\* mutant: the sensitive-field gate runs before the injection gate
query_data_sensitive_first(ps, sql, page, page_size, env) ==
    IF ~SafeQuery[sql]
    THEN Rejected("unsafe", FALSE, ErrNotReadOnly, ps)
    ELSE IF SensitiveField[sql]
    THEN Rejected("sensitive", FALSE, ErrSensitive, ps)
    ELSE IF SqlInjection[sql][env.libinj]
    THEN Rejected("injection", TRUE, ErrInjection, ps)
    ELSE Admit(ps, sql, page, page_size, env)

\* mutant: the pagination slot is prepared before the gates run
query_data_resets_first(ps, sql, page, page_size, env) ==
    LET begun == BeginPagination(ps, sql, page, page_size)
    IN  IF ~SafeQuery[sql]
        THEN Rejected("unsafe", FALSE, ErrNotReadOnly, begun)
        ELSE IF SqlInjection[sql][env.libinj]
        THEN Rejected("injection", TRUE, ErrInjection, begun)
        ELSE IF SensitiveField[sql]
        THEN Rejected("sensitive", TRUE, ErrSensitive, begun)
        ELSE Admit(ps, sql, page, page_size, env)

\* mutant: the sensitive-field rejection returns without session.add_context
query_data_unrecorded_rejection(ps, sql, page, page_size, env) ==
    IF ~SafeQuery[sql]
    THEN Rejected("unsafe", FALSE, ErrNotReadOnly, ps)
    ELSE IF SqlInjection[sql][env.libinj]
    THEN Rejected("injection", TRUE, ErrInjection, ps)
    ELSE IF SensitiveField[sql]
    THEN [Rejected("sensitive", TRUE, ErrSensitive, ps) EXCEPT !.recorded = <<>>]
    ELSE Admit(ps, sql, page, page_size, env)

\* query_data after the sweep and get_or_create_session: the gates in the
\* order of lines 430-463, then the executor.  recorded lists the results
\* passed to session.add_context on the way, consulted says whether
\* libinjection was called.
query_data(ps, sql, page, page_size, env) ==
    IF ~SafeQuery[sql]
    THEN Rejected("unsafe", FALSE, ErrNotReadOnly, ps)
    ELSE IF SqlInjection[sql][env.libinj]
    THEN Rejected("injection", TRUE, ErrInjection, ps)
    ELSE IF SensitiveField[sql]
    THEN Rejected("sensitive", TRUE, ErrSensitive, ps)
    ELSE Admit(ps, sql, page, page_size, env)

(***************************************************************************)
(* State                                                                   *)
(***************************************************************************)
VARIABLES
    pagination_state,       \* the global pagination slot
    conversation_sessions,  \* session id -> ConversationSession
    now,                    \* time.time()
    ret,                    \* the last gateway call and what it returned
    driver_calls,           \* the driver calls the last gateway call made
    classifier,             \* what libinjection does on the statement of the last
                            \* gateway call, and whether the call consulted it
    open_connections,       \* connections acquired and not yet closed
    steps_left,             \* steps the specification still allows
    threads,                \* SpecRace: where each request thread is in query_data
    session_objects         \* SpecRace: the ConversationSession objects created

vars == <<pagination_state, conversation_sessions, now, ret, driver_calls,
          classifier, open_connections, steps_left, threads, session_objects>>

\* the request threads of the HTTP front end (mcp_http_server.py)
Threads == {"t1", "t2"}

\* the session two racing requests share
RaceSession == "s1"

\* a thread that has just entered query_data, past the sweep of line 425
EnteringThread ==
    [pc |-> "check", session_id |-> RaceSession, session |-> 0,
     result |-> [success |-> TRUE], loaded |-> 0]

NotConsulted == [did |-> "clean", consulted |-> FALSE]

NoCall == [op |-> "none", session_id |-> "", sql |-> "", exit |-> "",
           raised |-> "", result |-> [success |-> TRUE]]

InitWith(budget) ==
    /\ pagination_state = InitialPagination
    /\ conversation_sessions = [s \in {} |-> ConversationSession(s, 0)]
    /\ now = 0
    /\ ret = NoCall
    /\ driver_calls = <<>>
    /\ classifier = NotConsulted
    /\ open_connections = 0
    /\ steps_left = budget
    /\ threads = [t \in Threads |-> EnteringThread]
    /\ session_objects = <<>>

\* every action takes one of the steps the specification allows; a gateway
\* call made as one step involves no second thread
Step ==
    /\ steps_left > 0
    /\ steps_left' = steps_left - 1
    /\ UNCHANGED <<threads, session_objects>>

\* open connections after a gateway call that acquired a connection (or not)
\* and made the driver calls of calls
ConnectionsAfter(open, acquired, calls) ==
    open + (IF acquired THEN 1 ELSE 0)
         - Cardinality({i \in 1..Len(calls) : calls[i] = "conn.close"})

(***************************************************************************)
(* Gateway operations                                                      *)
(***************************************************************************)
Call(op, session_id, sql, exit, raised, result) ==
    [op |-> op, session_id |-> session_id, sql |-> sql, exit |-> exit,
     raised |-> raised, result |-> result]

\* returned in place of a result when the operation raises
NoReturn == [raised |-> TRUE]

QueryData(sql, page, page_size, session_id, user_message, env) ==
    LET swept    == cleanup_expired_sessions(conversation_sessions, now)
        sessions == get_or_create_session(swept, session_id, now)
        x        == query_data(pagination_state, sql, page, page_size, env)
    IN  /\ Step
        /\ pagination_state' = x.pagination
        /\ conversation_sessions' =
               [sessions EXCEPT ![session_id] =
                    RecordAll(@, sql, x.recorded, user_message, now)]
        /\ ret' = Call("query_data", session_id, sql, x.exit, "", x.result)
        /\ classifier' = [did |-> env.libinj, consulted |-> x.consulted]
        /\ driver_calls' = x.calls
        /\ open_connections' = ConnectionsAfter(open_connections, x.acquired, x.calls)
        /\ UNCHANGED now

\* mutant: the cursor is moved before the boundary is tested
next_page_moves_first(ps) ==
    LET current_page == ps.current_page
        rows         == ps.last_results.rows
        moved        == [ps EXCEPT !.current_page = current_page + 1]
        page_info    == get_page_data(rows, current_page + 1, ps.page_size)
    IN  IF ~Truthy(ps.last_results)
        THEN [raised |-> "", result |-> Failure(ErrNoResults), pagination |-> ps]
        ELSE IF get_page_data_raises(rows, current_page + 1, ps.page_size)
        THEN [raised |-> "ZeroDivisionError", result |-> NoReturn, pagination |-> moved]
        ELSE IF ~page_info.pagination.has_next
        THEN [raised |-> "", result |-> Failure(ErrLastPage), pagination |-> moved]
        ELSE [raised     |-> "",
              result     |-> [success    |-> TRUE,
                              results    |-> page_info.data,
                              rowCount   |-> Len(page_info.data),
                              totalRows  |-> ps.total_rows,
                              pagination |-> page_info.pagination],
              pagination |-> moved]

\* next_page: what it returns or raises, and the cursor it leaves
next_page(ps) ==
    LET current_page == ps.current_page
        rows         == ps.last_results.rows
        page_info    == get_page_data(rows, current_page + 1, ps.page_size)
    IN  IF ~Truthy(ps.last_results)
        THEN [raised |-> "", result |-> Failure(ErrNoResults), pagination |-> ps]
        ELSE IF get_page_data_raises(rows, current_page + 1, ps.page_size)
        THEN [raised |-> "ZeroDivisionError", result |-> NoReturn, pagination |-> ps]
        ELSE IF ~page_info.pagination.has_next
        THEN [raised |-> "", result |-> Failure(ErrLastPage), pagination |-> ps]
        ELSE [raised     |-> "",
              result     |-> [success    |-> TRUE,
                              results    |-> page_info.data,
                              rowCount   |-> Len(page_info.data),
                              totalRows  |-> ps.total_rows,
                              pagination |-> page_info.pagination],
              pagination |-> [ps EXCEPT !.current_page = current_page + 1]]

NextPage ==
    LET x == next_page(pagination_state)
    IN  /\ Step
        /\ pagination_state' = x.pagination
        /\ ret' = Call("next_page", "", "", IF x.raised = "" /\ x.result.success
                                              THEN "ok" ELSE "error",
                       x.raised, x.result)
        /\ driver_calls' = <<>>
        /\ classifier' = NotConsulted
        /\ UNCHANGED <<conversation_sessions, now, open_connections>>

\* prev_page: the cursor is moved before the page is computed
prev_page(ps) ==
    LET current_page == ps.current_page
        rows         == ps.last_results.rows
        moved        == [ps EXCEPT !.current_page = current_page - 1]
        page_info    == get_page_data(rows, moved.current_page, moved.page_size)
    IN  IF ~Truthy(ps.last_results)
        THEN [raised |-> "", result |-> Failure(ErrNoResults), pagination |-> ps]
        ELSE IF current_page <= 0
        THEN [raised |-> "", result |-> Failure(ErrFirstPage), pagination |-> ps]
        ELSE IF get_page_data_raises(rows, moved.current_page, moved.page_size)
        THEN [raised |-> "ZeroDivisionError", result |-> NoReturn, pagination |-> moved]
        ELSE [raised     |-> "",
              result     |-> [success    |-> TRUE,
                              results    |-> page_info.data,
                              rowCount   |-> Len(page_info.data),
                              pagination |-> page_info.pagination],
              pagination |-> moved]

PrevPage ==
    LET x == prev_page(pagination_state)
    IN  /\ Step
        /\ pagination_state' = x.pagination
        /\ ret' = Call("prev_page", "", "", IF x.raised = "" /\ x.result.success
                                              THEN "ok" ELSE "error",
                       x.raised, x.result)
        /\ driver_calls' = <<>>
        /\ classifier' = NotConsulted
        /\ UNCHANGED <<conversation_sessions, now, open_connections>>

ErrNoSession(session_id) == "Session " \o session_id \o " does not exist"

get_conversation_context(sessions, session_id) ==
    IF session_id \notin DOMAIN sessions
    THEN Failure(ErrNoSession(session_id))
    ELSE [success |-> TRUE, context |-> get_context_summary(sessions[session_id])]

GetConversationContext(session_id) ==
    LET swept == cleanup_expired_sessions(conversation_sessions, now)
        r     == get_conversation_context(swept, session_id)
    IN  /\ Step
        /\ conversation_sessions' = swept
        /\ ret' = Call("get_conversation_context", session_id, "",
                       IF r.success THEN "ok" ELSE "error", "", r)
        /\ driver_calls' = <<>>
        /\ classifier' = NotConsulted
        /\ UNCHANGED <<pagination_state, now, open_connections>>

\* mutant: clearing a session empties the whole store
clear_conversation_context_drops_all(sessions, session_id) ==
    IF session_id \in DOMAIN sessions
    THEN [sessions |-> [s \in {} |-> sessions[s]],
          result   |-> [success |-> TRUE,
                        message |-> "Session " \o session_id \o " context cleared"]]
    ELSE [sessions |-> sessions,
          result   |-> Failure(ErrNoSession(session_id))]

\* clear_conversation_context does not sweep
clear_conversation_context(sessions, session_id) ==
    IF session_id \in DOMAIN sessions
    THEN [sessions |-> DelSession(sessions, session_id),
          result   |-> [success |-> TRUE,
                        message |-> "Session " \o session_id \o " context cleared"]]
    ELSE [sessions |-> sessions,
          result   |-> Failure(ErrNoSession(session_id))]

ClearConversationContext(session_id) ==
    LET x == clear_conversation_context(conversation_sessions, session_id)
    IN  /\ Step
        /\ conversation_sessions' = x.sessions
        /\ ret' = Call("clear_conversation_context", session_id, "",
                       IF x.result.success THEN "ok" ELSE "error", "", x.result)
        /\ driver_calls' = <<>>
        /\ classifier' = NotConsulted
        /\ UNCHANGED <<pagination_state, now, open_connections>>

\* active_sessions is the set of summaries (the code lists them in dict order)
list_active_sessions(sessions) ==
    [success         |-> TRUE,
     active_sessions |-> {[session_id     |-> s,
                           context_length |-> Len(sessions[s].context),
                           last_activity  |-> sessions[s].last_activity,
                           metadata       |-> sessions[s].metadata] : s \in DOMAIN sessions},
     total_sessions  |-> Cardinality(DOMAIN sessions)]

ListActiveSessions ==
    LET swept == cleanup_expired_sessions(conversation_sessions, now)
    IN  /\ Step
        /\ conversation_sessions' = swept
        /\ ret' = Call("list_active_sessions", "", "", "ok", "",
                       list_active_sessions(swept))
        /\ driver_calls' = <<>>
        /\ classifier' = NotConsulted
        /\ UNCHANGED <<pagination_state, now, open_connections>>

\* the clock advances by d seconds between gateway calls
Tick(d) ==
    /\ Step
    /\ now' = now + d
    /\ UNCHANGED <<pagination_state, conversation_sessions, ret, driver_calls,
                   classifier, open_connections>>

(***************************************************************************)
(* query_data called from two request threads for the same session id.     *)
(* Nothing in mcp_server.py takes a lock, so the threads interleave        *)
(* between the statements of get_or_create_session and of add_context.     *)
(* Here conversation_sessions maps a session id to the index of its object *)
(* in session_objects, and a thread's session is the index of the object   *)
(* get_or_create_session returned to it.  No session is older than the     *)
(* TTL, so the sweep of line 425 removes nothing; the gates, the executor  *)
(* and the paging between lines 430 and 519 are taken as one step.         *)
(***************************************************************************)
\* the store after cleanup_expired_sessions() at time t, the sessions being
\* the objects the store points to
cleanup_expired_session_objects(sessions, objects, t) ==
    LET expired_sessions == {s \in DOMAIN sessions : is_expired(objects[sessions[s]], t)}
    IN  [s \in DOMAIN sessions \ expired_sessions |-> sessions[s]]

\* line 425: cleanup_expired_sessions()
Sweep(t) ==
    /\ threads[t].pc = "sweep"
    /\ conversation_sessions' =
           cleanup_expired_session_objects(conversation_sessions, session_objects, now)
    /\ threads' = [threads EXCEPT ![t].pc = "check"]
    /\ UNCHANGED <<pagination_state, now, ret, driver_calls, classifier,
                   open_connections, steps_left, session_objects>>

\* line 97: if session_id not in conversation_sessions
GetOrCreateCheck(t) ==
    /\ threads[t].pc = "check"
    /\ threads' = [threads EXCEPT ![t].pc =
                       IF threads[t].session_id \in DOMAIN conversation_sessions
                       THEN "return" ELSE "create"]
    /\ UNCHANGED <<pagination_state, conversation_sessions, now, ret, driver_calls,
                   classifier, open_connections, steps_left, session_objects>>

\* line 98: conversation_sessions[session_id] = ConversationSession(session_id)
GetOrCreateStore(t) ==
    /\ threads[t].pc = "create"
    /\ session_objects' =
           Append(session_objects, ConversationSession(threads[t].session_id, now))
    /\ conversation_sessions' =
           [s \in DOMAIN conversation_sessions \cup {threads[t].session_id} |->
               IF s = threads[t].session_id THEN Len(session_objects) + 1
               ELSE conversation_sessions[s]]
    /\ threads' = [threads EXCEPT ![t].pc = "return"]
    /\ UNCHANGED <<pagination_state, now, ret, driver_calls, classifier,
                   open_connections, steps_left>>

\* line 99: return conversation_sessions[session_id]; a KeyError when the
\* id has left the store since line 97, which nothing in query_data catches
GetOrCreateReturn(t) ==
    /\ threads[t].pc = "return"
    /\ threads' = IF threads[t].session_id \in DOMAIN conversation_sessions
                  THEN [threads EXCEPT ![t].session =
                                           conversation_sessions[threads[t].session_id],
                                       ![t].pc = "execute"]
                  ELSE [threads EXCEPT ![t].pc = "raised"]
    /\ UNCHANGED <<pagination_state, conversation_sessions, now, ret, driver_calls,
                   classifier, open_connections, steps_left, session_objects>>

\* lines 430-519: the gates, the executor and the paging give the result
RunQuery(t, sql) ==
    LET x == query_data(pagination_state, sql, 0, 2, [libinj |-> "clean",
                        fault |-> "none", rollback_raises |-> FALSE, nrows |-> 0])
    IN  /\ threads[t].pc = "execute"
        /\ pagination_state' = x.pagination
        /\ threads' = [threads EXCEPT ![t].result = x.result, ![t].pc = "append"]
        /\ UNCHANGED <<conversation_sessions, now, ret, driver_calls, classifier,
                       open_connections, steps_left, session_objects>>

\* lines 64-72 of add_context: the item is appended, last_activity is set
AddContextAppend(t, sql) ==
    LET item == [timestamp    |-> now,
                 sql          |-> sql,
                 result       |-> threads[t].result,
                 user_message |-> "",
                 success      |-> GetSuccess(threads[t].result)]
    IN  /\ threads[t].pc = "append"
        /\ session_objects' =
               [session_objects EXCEPT ![threads[t].session].context = DequeAppend(@, item),
                                       ![threads[t].session].last_activity = now]
        /\ threads' = [threads EXCEPT ![t].pc = "load_total"]
        /\ UNCHANGED <<pagination_state, conversation_sessions, now, ret, driver_calls,
                       classifier, open_connections, steps_left>>

\* the counter the += of thread t is about: line 75, then line 77 or 79
CounterOf(t) ==
    IF threads[t].pc \in {"load_total", "store_total"} THEN "total_queries"
    ELSE IF GetSuccess(threads[t].result) THEN "successful_queries"
    ELSE "failed_queries"

\* the read of self.metadata[counter] += 1
AddContextLoad(t) ==
    /\ threads[t].pc \in {"load_total", "load_outcome"}
    /\ threads' =
           [threads EXCEPT ![t].loaded =
                               session_objects[threads[t].session].metadata[CounterOf(t)],
                           ![t].pc = IF threads[t].pc = "load_total"
                                     THEN "store_total" ELSE "store_outcome"]
    /\ UNCHANGED <<pagination_state, conversation_sessions, now, ret, driver_calls,
                   classifier, open_connections, steps_left, session_objects>>

\* the write of self.metadata[counter] += 1
AddContextStore(t) ==
    /\ threads[t].pc \in {"store_total", "store_outcome"}
    /\ session_objects' =
           [session_objects EXCEPT ![threads[t].session].metadata[CounterOf(t)] =
                                       threads[t].loaded + 1]
    /\ threads' = [threads EXCEPT ![t].pc = IF threads[t].pc = "store_total"
                                            THEN "load_outcome" ELSE "done"]
    /\ UNCHANGED <<pagination_state, conversation_sessions, now, ret, driver_calls,
                   classifier, open_connections, steps_left>>

(***************************************************************************)
(* Specifications                                                          *)
(***************************************************************************)
MaxRows == 3

Env(libinj, fault, rollback_raises, nrows) ==
    [libinj |-> libinj, fault |-> fault, rollback_raises |-> rollback_raises,
     nrows |-> nrows]

(***************************************************************************)
(* Spec: the whole gateway, two sessions, the clock, a failing connection  *)
(* and a failing statement                                                 *)
(***************************************************************************)
MaxSteps == 3

TickSteps == {CONTEXT_EXPIRE_TIME, CONTEXT_EXPIRE_TIME + 1}

Envs == {Env("clean", "none", FALSE, MaxRows),
         Env("clean", "none", FALSE, 0),
         Env("clean", "connect", FALSE, 0),
         Env("clean", "execute", FALSE, 0)}

Init == InitWith(MaxSteps)

Next ==
    \/ \E sql \in AdmittedPool \cup {"DROP TABLE student;"}, session_id \in SessionIds,
          user_message \in UserMessages, env \in Envs :
          QueryData(sql, 0, 2, session_id, user_message, env)
    \/ NextPage
    \/ PrevPage
    \/ \E session_id \in SessionIds : GetConversationContext(session_id)
    \/ \E session_id \in SessionIds : ClearConversationContext(session_id)
    \/ ListActiveSessions
    \/ \E d \in TickSteps : Tick(d)

Spec == Init /\ [][Next]_vars

(***************************************************************************)
(* SpecGates: the validator on every statement of GatePool, with every     *)
(* behaviour of the injection classifier, in one session                   *)
(***************************************************************************)
GateSteps == 2

GateEnvs == {Env(l, "none", FALSE, MaxRows) : l \in LibinjectionOutcomes}

InitGates == InitWith(GateSteps)

NextGates ==
    \/ \E sql \in GatePool, user_message \in UserMessages, env \in GateEnvs :
          QueryData(sql, 0, 2, "s1", user_message, env)
    \/ NextPage
    \/ PrevPage

SpecGates == InitGates /\ [][NextGates]_vars

(***************************************************************************)
(* SpecOutcomes: every way a query can end (each gate, each failing driver *)
(* call, a failing rollback, a failure while paging, success), in one      *)
(* session that can expire or be cleared                                   *)
(***************************************************************************)
OutcomeSteps == 3

OutcomeEnvs ==
    {Env("sqli", "none", rb, n) : rb \in BOOLEAN, n \in {0, MaxRows}}
    \cup {Env("sqli", f, FALSE, 0) : f \in DriverFaults \ {"none"}}
    \cup {Env("sqli", f, TRUE, 0) : f \in {"execute", "fetchall", "commit"}}

InitOutcomes == InitWith(OutcomeSteps)

NextOutcomes ==
    \/ \E sql \in SqlPool \ {"select * from course"}, page_size \in {0, 2},
          user_message \in UserMessages, env \in OutcomeEnvs :
          QueryData(sql, 0, page_size, "s1", user_message, env)
    \/ NextPage
    \/ PrevPage
    \/ ClearConversationContext("s1")
    \/ Tick(CONTEXT_EXPIRE_TIME + 1)

SpecOutcomes == InitOutcomes /\ [][NextOutcomes]_vars

(***************************************************************************)
(* SpecPager: one session pages through results of several lengths, with   *)
(* every page number from -1 to MaxPage, page sizes 1 and 2, the same      *)
(* statement or another one, and a statement that raises                   *)
(***************************************************************************)
PagerSteps == 3

MaxPage == 2

Pages == -1..MaxPage

PageSizes == {1, 2}

InitPager == InitWith(PagerSteps)

NextPager ==
    \/ \E sql \in AdmittedPool, page \in Pages, page_size \in PageSizes :
          QueryData(sql, page, page_size, "s1", "list them",
                    Env("clean", "none", FALSE, MaxRows))
    \/ \E page \in {0, 1} :
          QueryData("SELECT * FROM student", page, 2, "s1", "list them",
                    Env("clean", "none", FALSE, 0))
    \/ \E fault \in {"connect", "execute"}, page_size \in PageSizes :
          QueryData("SELECT * FROM student", 0, page_size, "s1", "list them",
                    Env("clean", fault, FALSE, 0))
    \/ NextPage
    \/ PrevPage

SpecPager == InitPager /\ [][NextPager]_vars

(***************************************************************************)
(* SpecHistory: one session makes more queries than its history holds,     *)
(* each either admitted and successful or rejected by the validator        *)
(***************************************************************************)
HistorySteps == 12

InitHistory == InitWith(HistorySteps)

NextHistory ==
    \/ \E sql \in {"SELECT * FROM student", "DROP TABLE student;"} :
          QueryData(sql, 0, 2, "s1", "list them", Env("clean", "none", FALSE, 0))
    \/ GetConversationContext("s1")

SpecHistory == InitHistory /\ [][NextHistory]_vars

(***************************************************************************)
(* SpecRace: two threads run query_data at once for session RaceSession,   *)
(* which either does not exist yet or exists with an empty history; one    *)
(* thread's statement is admitted, the other's is rejected                 *)
(***************************************************************************)
RaceSql == [t \in Threads |->
               IF t = "t1" THEN "SELECT * FROM student" ELSE "DROP TABLE student;"]

InitRace ==
    /\ pagination_state = InitialPagination
    /\ \/ /\ conversation_sessions = [s \in {} |-> 0]
          /\ session_objects = <<>>
       \/ /\ conversation_sessions = [s \in {RaceSession} |-> 1]
          /\ session_objects = <<ConversationSession(RaceSession, 0)>>
    /\ now = 0
    /\ ret = NoCall
    /\ driver_calls = <<>>
    /\ classifier = NotConsulted
    /\ open_connections = 0
    /\ steps_left = 0
    /\ threads = [t \in Threads |-> EnteringThread]

NextRace ==
    \/ \E t \in Threads : GetOrCreateCheck(t)
    \/ \E t \in Threads : GetOrCreateStore(t)
    \/ \E t \in Threads : GetOrCreateReturn(t)
    \/ \E t \in Threads : RunQuery(t, RaceSql[t])
    \/ \E t \in Threads : AddContextAppend(t, RaceSql[t])
    \/ \E t \in Threads : AddContextLoad(t)
    \/ \E t \in Threads : AddContextStore(t)

SpecRace == InitRace /\ [][NextRace]_vars

(***************************************************************************)
(* SpecSweep: a request thread runs query_data for session RaceSession,    *)
(* which has been idle for exactly the TTL, while a second request thread  *)
(* runs query_data for another session and the clock advances second by    *)
(* second                                                                  *)
(***************************************************************************)
SweepTicks == 2

OtherSession == "s2"

InitSweep ==
    /\ pagination_state = InitialPagination
    /\ conversation_sessions = [s \in {RaceSession} |-> 1]
    /\ session_objects =
           <<add_context(ConversationSession(RaceSession, 0), "DROP TABLE student;",
                         Failure(ErrNotReadOnly), "", 0)>>
    /\ now = CONTEXT_EXPIRE_TIME
    /\ ret = NoCall
    /\ driver_calls = <<>>
    /\ classifier = NotConsulted
    /\ open_connections = 0
    /\ steps_left = SweepTicks
    /\ threads = [t \in Threads |->
                     [EnteringThread EXCEPT
                          !.pc = "sweep",
                          !.session_id = IF t = "t1" THEN RaceSession ELSE OtherSession]]

NextSweep ==
    \/ \E t \in Threads : Sweep(t)
    \/ \E t \in Threads : GetOrCreateCheck(t)
    \/ \E t \in Threads : GetOrCreateStore(t)
    \/ \E t \in Threads : GetOrCreateReturn(t)
    \/ \E t \in Threads : RunQuery(t, RaceSql[t])
    \/ \E t \in Threads : AddContextAppend(t, RaceSql[t])
    \/ \E t \in Threads : AddContextLoad(t)
    \/ \E t \in Threads : AddContextStore(t)
    \/ Tick(1)

SpecSweep == InitSweep /\ [][NextSweep]_vars

(***************************************************************************)
(* The validator as the specification words it, tabulated over the         *)
(* statements submitted                                                    *)
(***************************************************************************)
ReadOnlyWords == {"select", "show", "desc", "describe", "explain"}

MutationWords == {"insert", "update", "delete", "drop", "create", "alter",
                  "truncate", "replace", "merge", "call", "exec", "execute"}

SensitiveWords == {"password", "salary", "ssn", "credit_card"}

\* the left-trimmed, lower-cased text begins with a read-only word that is
\* followed by the end of the text, white space, "(", "*" or any other
\* character that cannot continue a word
BeginsReadOnly(sql) ==
    LET text == Lower(LStrip(sql))
    IN  \E w \in ReadOnlyWords :
            /\ Len(text) >= Len(w)
            /\ SubSeq(text, 1, Len(w)) = w
            /\ \/ Len(text) = Len(w)
               \/ IsSpace(Ch(text, Len(w) + 1))
               \/ Ch(text, Len(w) + 1) \in {"(", "*"}
               \/ ~IsWordChar(Ch(text, Len(w) + 1))

\* w occurs in sql at index i, in any letter case
OccursAt(sql, w, i) ==
    /\ i + Len(w) - 1 <= Len(sql)
    /\ Lower(SubSeq(sql, i, i + Len(w) - 1)) = w

ContainsMutationWord(sql) ==
    \E w \in MutationWords : \E i \in 1..Len(sql) : OccursAt(sql, w, i)

\* a sensitive word occurs with no word character directly before or after it
NamesSensitiveWord(sql) ==
    \E w \in SensitiveWords : \E i \in 1..Len(sql) :
        /\ OccursAt(sql, w, i)
        /\ ~IsWordAt(sql, i - 1)
        /\ ~IsWordAt(sql, i + Len(w))

Facts == [s \in AllSql |->
             [read_only |-> BeginsReadOnly(s),
              mutation  |-> ContainsMutationWord(s),
              signature |-> MatchesSignature(s),
              sensitive |-> NamesSensitiveWord(s)]]

IsQuery == ret.op = "query_data"

\* the last call was a query and a validator gate rejected it
IsRejected == IsQuery /\ ret.exit \in {"unsafe", "injection", "sensitive"}

\* the classifier flagged the statement of the last query and a signature confirms
ConfirmedInjection == classifier.did = "sqli" /\ Facts[ret.sql].signature

\* the step is a gateway operation: the clock stands still
GatewayStep == steps_left' < steps_left /\ now' = now

\* the step is a call of query_data
QueryStep == ret'.op = "query_data" /\ steps_left' < steps_left /\ now' = now

(***************************************************************************)
(* C1. A statement reaches the backing store (any driver call is made)     *)
(* only in a query whose statement passed all four gates in that call.     *)
(***************************************************************************)
C1_OnlyAdmittedReachesStore ==
    driver_calls # <<>> =>
        /\ IsQuery
        /\ Facts[ret.sql].read_only
        /\ ~Facts[ret.sql].mutation
        /\ ~ConfirmedInjection
        /\ ~Facts[ret.sql].sensitive

C1_Witness ==
    /\ IsQuery
    /\ \E i \in 1..Len(driver_calls) : driver_calls[i] = "execute"
    /\ Truthy(pagination_state.last_results)

(***************************************************************************)
(* C2. A statement that does not begin with a read-only word is answered   *)
(* with success = false, the not-read-only reason and no results field.    *)
(***************************************************************************)
C2_NotReadOnlyRejected ==
    (IsQuery /\ ~Facts[ret.sql].read_only) =>
        /\ ret.result = Failure(ErrNotReadOnly)
        /\ "results" \notin DOMAIN ret.result
        /\ driver_calls = <<>>

C2_Witness ==
    /\ IsQuery
    /\ ret.sql = "selectx FROM student"
    /\ ret.result.success = FALSE

(***************************************************************************)
(* C3. A statement that begins with a read-only word but contains a        *)
(* mutation keyword anywhere, in any letter case, is answered with         *)
(* success = false and is not executed.                                    *)
(***************************************************************************)
C3_MutationKeywordRejected ==
    (IsQuery /\ Facts[ret.sql].read_only /\ Facts[ret.sql].mutation) =>
        /\ ret.result.success = FALSE
        /\ driver_calls = <<>>

C3_Witness ==
    /\ IsQuery
    /\ ret.sql = "SELECT * FROM student; DROP TABLE student;"
    /\ ret.result.success = FALSE

(***************************************************************************)
(* C4. contains_sensitive_field flags a statement exactly when a sensitive *)
(* word occurs in it as a whole word, in any letter case; a query that     *)
(* reaches the sensitive-field gate with such a statement is answered with *)
(* success = false, and only such statements are rejected by that gate.    *)
(***************************************************************************)
C4_SensitiveWholeWord ==
    IsQuery =>
        /\ SensitiveField[ret.sql] <=> Facts[ret.sql].sensitive
        /\ (ret.exit \notin {"unsafe", "injection"} /\ Facts[ret.sql].sensitive)
               => (ret.result = Failure(ErrSensitive) /\ driver_calls = <<>>)
        /\ ret.exit = "sensitive" => Facts[ret.sql].sensitive

C4_Witness ==
    /\ IsQuery
    /\ ret.sql = "select name as Password from user"
    /\ ret.exit = "sensitive"

(***************************************************************************)
(* C5. A query that reaches the injection gate is rejected there exactly   *)
(* when the classifier flags the statement and one of the signatures       *)
(* matches; a flag without a signature does not reject.                    *)
(***************************************************************************)
C5_InjectionNeedsBoth ==
    (IsQuery /\ Facts[ret.sql].read_only /\ ~Facts[ret.sql].mutation) =>
        (ret.exit = "injection" <=> ConfirmedInjection)

C5_Witness ==
    /\ IsQuery
    /\ classifier = [did |-> "sqli", consulted |-> TRUE]
    /\ ~Facts[ret.sql].signature
    /\ ret.exit = "ok"

(***************************************************************************)
(* C6. The gates run in the order prefix, keyword, injection, sensitive    *)
(* field and stop at the first that rejects: the error returned is that of *)
(* the earliest failing gate, and the classifier is not consulted when the *)
(* prefix or keyword gate rejects.                                         *)
(***************************************************************************)
C6_EarliestGateDecides ==
    IsQuery =>
        LET f == Facts[ret.sql]
        IN  /\ (~f.read_only \/ f.mutation)
                => (ret.result = Failure(ErrNotReadOnly) /\ ~classifier.consulted)
            /\ (f.read_only /\ ~f.mutation /\ ConfirmedInjection)
                => ret.result = Failure(ErrInjection)
            /\ (f.read_only /\ ~f.mutation /\ ~ConfirmedInjection /\ f.sensitive)
                => ret.result = Failure(ErrSensitive)
            /\ (f.read_only /\ ~f.mutation /\ ~ConfirmedInjection /\ ~f.sensitive)
                => ret.exit \notin {"unsafe", "injection", "sensitive"}

C6_Witness ==
    /\ IsQuery
    /\ ret.sql = "SELECT password FROM user WHERE id=1 OR 1=1"
    /\ classifier = [did |-> "sqli", consulted |-> TRUE]
    /\ ret.result = Failure(ErrInjection)

(***************************************************************************)
(* C7. The error of a rejected query tells which gate rejected it: two     *)
(* recorded queries, one rejected by the prefix whitelist and one by the   *)
(* keyword blacklist, carry different errors.                              *)
(***************************************************************************)
C7_ReasonTellsGate ==
    \A s \in DOMAIN conversation_sessions :
        LET context == conversation_sessions[s].context
        IN  \A i, j \in 1..Len(context) :
                (/\ ~Facts[context[i].sql].read_only
                 /\ Facts[context[j].sql].read_only
                 /\ Facts[context[j].sql].mutation)
                    => context[i].result.error # context[j].result.error

(***************************************************************************)
(* C8. A query rejected by a validator gate leaves the pagination state    *)
(* (last SQL, rows, cursor, page size, total rows) as it was.              *)
(***************************************************************************)
C8_RejectionKeepsPagination ==
    [][(QueryStep /\ ret'.exit \in {"unsafe", "injection", "sensitive"})
          => pagination_state' = pagination_state]_vars

C8_Witness ==
    /\ IsRejected
    /\ Truthy(pagination_state.last_results)

(***************************************************************************)
(* C9. A query that passed the gates and then fails in the executor (the   *)
(* connection, the start of the transaction or the statement raises)       *)
(* leaves the pagination state as it was: the rows materialized by an      *)
(* earlier query, the last SQL, the cursor and the page size.              *)
(***************************************************************************)
ExecutorFailed ==
    /\ ret.exit \in {"connection_error", "sql_error"}
    /\ ret.result.error # ZeroDivisionMessage

C9_ExecutorFailureKeepsPagination ==
    [][(QueryStep /\ ExecutorFailed' /\ Truthy(pagination_state.last_results))
          => pagination_state' = pagination_state]_vars

(***************************************************************************)
(* C10. Every query, however it ends, appends exactly one item to the      *)
(* history of its session and raises its total_queries by one, the item    *)
(* carrying the success flag of the result returned; a session that is     *)
(* unknown (never used, cleared, or swept as expired at the start of the   *)
(* call) starts from zeroed counters and an empty history, and the query   *)
(* returns a result of its own, never session-not-found.                   *)
(***************************************************************************)
ZeroedSession ==
    [context  |-> <<>>,
     metadata |-> [total_queries |-> 0, successful_queries |-> 0, failed_queries |-> 0]]

Connected ==
    Len(driver_calls) > 1 /\ driver_calls[1] = "connect" /\ driver_calls[2] # Raised

Completed(c) ==
    {i \in 1..Len(driver_calls) :
        /\ driver_calls[i] = c
        /\ (i = Len(driver_calls) \/ driver_calls[i + 1] # Raised)}

\* the last query attempted driver call c and it raised
Failed(c) ==
    \E i \in 1..Len(driver_calls) - 1 :
        driver_calls[i] = c /\ driver_calls[i + 1] = Raised

Attempted(c) == \E i \in 1..Len(driver_calls) : driver_calls[i] = c

C12_TransactionEndedOnce ==
    (IsQuery /\ ~Failed("rollback")) =>
        /\ Attempted("execute") =>
               \E i \in Completed("set_read_only"), j \in Completed("start_transaction"),
                  k \in 1..Len(driver_calls) :
                  driver_calls[k] = "execute" /\ i < j /\ j < k
        /\ Completed("start_transaction") # {} =>
               Cardinality(Completed("commit") \cup Completed("rollback")) = 1
        /\ (Completed("execute") # {} /\ Completed("fetchall") # {})
               => Attempted("commit")
        /\ Failed("execute") =>
               /\ Completed("rollback") # {}
               /\ ret.result = Failure(DriverError("execute"))

(***************************************************************************)
(* C13. The result of a query that could not acquire its connection and    *)
(* the result of a query whose statement raised differ in something other  *)
(* than the text of the error: an error kind the caller can read.          *)
(***************************************************************************)
\* a result without the free text of its error
WithoutErrorText(result) == [k \in DOMAIN result \ {"error"} |-> result[k]]

C13_FailureKindsDistinguishable ==
    [][(/\ IsQuery
        /\ driver_calls = <<"connect", Raised>>
        /\ QueryStep
        /\ Failed("execute")')
          => WithoutErrorText(ret.result) # WithoutErrorText(ret'.result)]_vars

(***************************************************************************)
(* C14. A page n of a result of N rows served with a positive page size s, *)
(* 0 <= n < ceil(N/s), holds rows n*s+1 .. min((n+1)*s, N) of the result   *)
(* in their order, between 1 and s of them, and its window reports         *)
(* total_pages = ceil(N/s), has_prev = (n > 0), has_next = (n < pages-1);  *)
(* a result of no rows has total_pages = 0.                                *)
(***************************************************************************)
\* the last call returned a page
ServedPage ==
    /\ ret.op \in {"query_data", "next_page", "prev_page"}
    /\ ret.raised = ""
    /\ ret.result.success

\* the least k with k * s >= n
Ceil(n, s) == CHOOSE k \in 0..n : k * s >= n /\ \A j \in 0..(k - 1) : j * s < n

C14_PageIsSlice ==
    (ServedPage /\ ret.result.pagination.page_size > 0) =>
        LET rows   == pagination_state.last_results.rows
            total  == Len(rows)
            window == ret.result.pagination
            n      == window.current_page
            s      == window.page_size
            pages  == Ceil(total, s)
            last   == IF (n + 1) * s < total THEN (n + 1) * s ELSE total
        IN  /\ window.total_pages = pages
            /\ window.total_rows = total
            /\ total = 0 => window.total_pages = 0
            /\ (0 <= n /\ n < pages) =>
                   /\ ret.result.results = [i \in 1..(last - n * s) |-> rows[n * s + i]]
                   /\ Len(ret.result.results) \in 1..s
                   /\ ret.result.rowCount = Len(ret.result.results)
                   /\ window.has_prev = (n > 0)
                   /\ window.has_next = (n < pages - 1)

\* the last, shorter page of a result of MaxRows rows in pages of two
C14_Witness ==
    /\ ServedPage
    /\ ret.result.pagination.page_size = 2
    /\ ret.result.pagination.total_rows = MaxRows
    /\ ret.result.pagination.current_page = ret.result.pagination.total_pages - 1
    /\ Len(ret.result.results) \in 1..2

(***************************************************************************)
(* C15. A query for a page outside 0 .. total_pages-1 of a non-empty       *)
(* result fails: a query that succeeds on a non-empty result reports a     *)
(* page inside the range and returns at least one row.                     *)
(***************************************************************************)
C15_OutOfRangePageFails ==
    (IsQuery /\ ret.result.success /\ ret.result.totalRows > 0) =>
        /\ 0 <= ret.result.pagination.current_page
        /\ ret.result.pagination.current_page < ret.result.pagination.total_pages
        /\ ret.result.results # <<>>

(***************************************************************************)
(* C16. With rows materialized and the cursor on a page p that is not the  *)
(* last, next_page succeeds, moves the cursor to p + 1 and returns page    *)
(* p + 1; it answers "already at the last page" only with the cursor on    *)
(* the last page.  With p > 0 prev_page succeeds and moves the cursor to   *)
(* p - 1.                                                                  *)
(***************************************************************************)
NextPageStep == ret'.op = "next_page" /\ GatewayStep

PrevPageStep == ret'.op = "prev_page" /\ GatewayStep

\* the pages of the materialized rows under the stored page size
StoredPages ==
    Ceil(Len(pagination_state.last_results.rows), pagination_state.page_size)

\* rows are materialized under a positive page size and the cursor is on a page
CursorOnPage ==
    /\ Truthy(pagination_state.last_results)
    /\ pagination_state.page_size > 0
    /\ pagination_state.current_page \in 0..(StoredPages - 1)

C16_NavigationReachesEveryPage ==
    [][/\ (NextPageStep /\ CursorOnPage) =>
            LET p == pagination_state.current_page
            IN  /\ p < StoredPages - 1 =>
                      /\ ret'.result.success
                      /\ pagination_state'.current_page = p + 1
                      /\ ret'.result.pagination.current_page = p + 1
                /\ ret'.result = Failure(ErrLastPage) => p = StoredPages - 1
       /\ (PrevPageStep /\ CursorOnPage /\ pagination_state.current_page > 0) =>
            /\ ret'.result.success
            /\ pagination_state'.current_page = pagination_state.current_page - 1
            /\ ret'.result.pagination.current_page = pagination_state.current_page - 1
      ]_vars

(***************************************************************************)
(* C17. When next_page or prev_page returns an error the pagination state, *)
(* cursor included, is as it was.  The error is "no previous results"      *)
(* exactly when no rows are materialized, otherwise "already at the last   *)
(* page" from next_page and "already at the first page" (cursor on page 0  *)
(* or below) from prev_page; the three messages differ from one another,   *)
(* and no failed query returns one of them.                                *)
(***************************************************************************)
NavigationErrors == {ErrNoResults, ErrLastPage, ErrFirstPage}

\* the step is a call of next_page or prev_page that returns an error
NavigationErrorStep ==
    /\ (NextPageStep \/ PrevPageStep)
    /\ ret'.raised = ""
    /\ ~ret'.result.success

C17_NavigationErrorKeepsState ==
    [][/\ NavigationErrorStep =>
            /\ pagination_state' = pagination_state
            /\ ret'.result.error \in NavigationErrors
            /\ ret'.result.error = ErrNoResults
                   <=> ~Truthy(pagination_state.last_results)
            /\ ret'.result.error = ErrLastPage => ret'.op = "next_page"
            /\ ret'.result.error = ErrFirstPage =>
                   (ret'.op = "prev_page" /\ pagination_state.current_page <= 0)
       /\ Cardinality(NavigationErrors) = 3
       /\ (QueryStep /\ ~ret'.result.success) =>
              ret'.result.error \notin NavigationErrors
      ]_vars

\* next_page answered "already at the last page" after a failed query
C17_Witness ==
    /\ ret.op = "next_page"
    /\ ret.result = Failure(ErrLastPage)
    /\ Truthy(pagination_state.last_results)
    /\ \E s \in DOMAIN conversation_sessions :
           conversation_sessions[s].metadata.failed_queries > 0

(***************************************************************************)
(* C18. A query whose trimmed, lower-cased SQL equals that of the result   *)
(* currently materialized changes only the cursor: it makes no driver      *)
(* call, so the statement is not executed again and no connection is       *)
(* acquired, and the materialized rows stay the ones the page is served    *)
(* from.                                                                   *)
(***************************************************************************)
\* the step is a query for the statement whose rows are materialized
SameQueryStep ==
    /\ QueryStep
    /\ ~pagination_state.last_results.is_none
    /\ Normalized[ret'.sql] = pagination_state.last_sql

C18_SameQueryNotReexecuted ==
    [][SameQueryStep =>
          /\ driver_calls' = <<>>
          /\ pagination_state' =
                 [pagination_state EXCEPT !.current_page =
                                              pagination_state'.current_page]]_vars

(***************************************************************************)
(* C19. After a successful query whose normalized SQL differs from that of *)
(* the previous query, the pager holds the new result and nothing else:    *)
(* the materialized rows are the rows of the new statement, total_rows is  *)
(* their number, the page size is the one requested, and the session's     *)
(* total_queries counts this query too.  Every page next_page or prev_page *)
(* returns holds rows of the statement last queried only.                  *)
(***************************************************************************)
\* the step is a successful query for another statement than the previous one
NewQueryStep ==
    /\ QueryStep
    /\ ret'.result.success
    /\ pagination_state.last_sql # ""
    /\ Normalized[ret'.sql] # pagination_state.last_sql

\* every row of rows is a row of the statement whose normalized text is text
RowsOf(rows, text) == \A i \in 1..Len(rows) : Normalized[rows[i].stmt] = text

C19_NewQueryReplacesPager ==
    [][/\ NewQueryStep =>
            LET sid    == ret'.session_id
                before == IF sid \in DOMAIN conversation_sessions
                          THEN conversation_sessions[sid].metadata.total_queries
                          ELSE 0
            IN  /\ pagination_state'.last_sql = Normalized[ret'.sql]
                /\ ~pagination_state'.last_results.is_none
                /\ RowsOf(pagination_state'.last_results.rows, Normalized[ret'.sql])
                /\ pagination_state'.total_rows = Len(pagination_state'.last_results.rows)
                /\ ret'.result.totalRows = pagination_state'.total_rows
                /\ pagination_state'.page_size = ret'.result.pagination.page_size
                /\ conversation_sessions'[sid].metadata.total_queries = before + 1
       /\ ((NextPageStep \/ PrevPageStep) /\ ret'.raised = "" /\ ret'.result.success) =>
              RowsOf(ret'.result.results, pagination_state'.last_sql)
      ]_vars

\* the second query of the session, for another statement and another page
\* size than the first, succeeded
C19_Witness ==
    /\ IsQuery
    /\ ret.result.success
    /\ ret.sql = "select * from course"
    /\ pagination_state.page_size = 1
    /\ Truthy(pagination_state.last_results)
    /\ LET session == conversation_sessions[ret.session_id]
       IN  /\ session.metadata.total_queries = 2
           /\ session.context[1].sql = "SELECT * FROM student"
           /\ session.context[1].result.success
           /\ session.context[1].result.pagination.page_size = 2
           /\ session.context[1].result.totalRows > 0

(***************************************************************************)
(* C20. Whenever rows are materialized (total_rows > 0) the stored cursor  *)
(* lies in 0 .. total_pages - 1, whatever pages were asked of the query    *)
(* and whatever calls of query, next_page and prev_page were made.         *)
(***************************************************************************)
C20_CursorWithinPages ==
    (Truthy(pagination_state.last_results) /\ pagination_state.total_rows > 0
         /\ pagination_state.page_size > 0)
        => pagination_state.current_page \in 0..(StoredPages - 1)

(***************************************************************************)
(* C21. A result of N rows paged with a positive page size s has           *)
(* ceil(N/s) pages, and pages 0, 1, ..., ceil(N/s)-1 put one after the     *)
(* other are the N rows again, none dropped, repeated or moved.  Stated    *)
(* for every prefix of the rows materialized and every page size from 1 to *)
(* one more than their number.                                             *)
(***************************************************************************)
RECURSIVE PagesUpTo(_, _, _)
\* the rows of pages 0 .. n-1 of results, one page after the other
PagesUpTo(results, page_size, n) ==
    IF n = 0 THEN <<>>
    ELSE PagesUpTo(results, page_size, n - 1)
             \o get_page_data(results, n - 1, page_size).data

C21_PagesRebuildRows ==
    ~pagination_state.last_results.is_none =>
        LET rows == pagination_state.last_results.rows
        IN  \A k \in 0..Len(rows), s \in 1..(Len(rows) + 1) :
                LET results == SubSeq(rows, 1, k)
                    pages   == get_page_data(results, 0, s).pagination.total_pages
                IN  /\ pages = Ceil(k, s)
                    /\ PagesUpTo(results, s, pages) = results

\* MaxRows rows are materialized
C21_Witness ==
    /\ ~pagination_state.last_results.is_none
    /\ Len(pagination_state.last_results.rows) = MaxRows
    /\ get_page_data(pagination_state.last_results.rows, 0, 2).pagination.total_pages
           = Ceil(MaxRows, 2)

(***************************************************************************)
(* C22. Asking for the same page of the same statement twice in a row,     *)
(* with the same page size and no other call in between, returns the same  *)
(* output both times (rows and pagination window) and leaves the           *)
(* materialized rows as they were.                                         *)
(***************************************************************************)
\* the step repeats the successful query just made: same statement, same
\* page (line 476 stores the page asked for) and, when it succeeds, same
\* page size
RepeatedPageStep ==
    /\ IsQuery
    /\ ret.result.success
    /\ SameQueryStep
    /\ pagination_state'.current_page = ret.result.pagination.current_page
    /\ ret'.result.success =>
           ret'.result.pagination.page_size = ret.result.pagination.page_size

C22_SamePageTwice ==
    [][RepeatedPageStep =>
          /\ ret'.result = ret.result
          /\ pagination_state'.last_results = pagination_state.last_results]_vars

(***************************************************************************)
(* C23. Pagination belongs to a session: after a session has materialized  *)
(* rows, a query made under another session id changes neither the rows,   *)
(* nor the cursor, nor the page size that next_page and prev_page serve    *)
(* the first session from.                                                 *)
(***************************************************************************)
\* the step is a query under another session id than the query just made
OtherSessionQueryStep ==
    /\ IsQuery
    /\ QueryStep
    /\ ret'.session_id # ret.session_id

C23_PaginationPerSession ==
    [][(OtherSessionQueryStep /\ Truthy(pagination_state.last_results)) =>
          /\ next_page(pagination_state') = next_page(pagination_state)
          /\ prev_page(pagination_state') = prev_page(pagination_state)]_vars

(***************************************************************************)
(* C24. After k queries in a live session the history holds the min(k, 10) *)
(* most recent items in the order they arrived: each query appends its     *)
(* item at the end and, when ten are held already, drops the oldest; while *)
(* total_queries, successful_queries and failed_queries count all k.       *)
(***************************************************************************)
\* what the history and the counters of a session say about its queries
HistoryConsistent(session) ==
    LET m == session.metadata
    IN  /\ Len(session.context) =
               (IF m.total_queries < 10 THEN m.total_queries ELSE 10)
        /\ m.total_queries = m.successful_queries + m.failed_queries

C24_HistoryKeepsLastTen ==
    [][QueryStep =>
          LET sid    == ret'.session_id
              live   == sid \in DOMAIN conversation_sessions
              before == IF live THEN conversation_sessions[sid] ELSE ZeroedSession
              after  == conversation_sessions'[sid]
              n      == Len(before.context)
              ok     == ret'.result.success
          IN  /\ HistoryConsistent(after)
              /\ after.metadata.total_queries = before.metadata.total_queries + 1
              /\ after.metadata.successful_queries =
                     before.metadata.successful_queries + (IF ok THEN 1 ELSE 0)
              /\ after.metadata.failed_queries =
                     before.metadata.failed_queries + (IF ok THEN 0 ELSE 1)
              /\ after.context[Len(after.context)].sql = ret'.sql
              /\ after.context[Len(after.context)].result = ret'.result
              /\ n < 10 => SubSeq(after.context, 1, n) = before.context
              /\ n = 10 => SubSeq(after.context, 1, 9) = SubSeq(before.context, 2, 10)
      ]_vars

\* the eleventh query of a session, after successes and failures
C24_Witness ==
    /\ IsQuery
    /\ "s1" \in DOMAIN conversation_sessions
    /\ conversation_sessions["s1"].metadata.total_queries = 11
    /\ conversation_sessions["s1"].metadata.successful_queries > 0
    /\ conversation_sessions["s1"].metadata.failed_queries > 0
    /\ Len(conversation_sessions["s1"].context) = 10

(***************************************************************************)
(* C25. A session whose last activity is more than CONTEXT_EXPIRE_TIME     *)
(* seconds old is not among the sessions list_active_sessions returns, and *)
(* get_conversation_context answers that it does not exist, without anyone *)
(* having cleared it.                                                      *)
(***************************************************************************)
\* the sessions of the store that have been idle for longer than the TTL
IdleSessions ==
    {s \in DOMAIN conversation_sessions :
        now - conversation_sessions[s].last_activity > 3600}

ListStep == ret'.op = "list_active_sessions" /\ GatewayStep

GetContextStep == ret'.op = "get_conversation_context" /\ GatewayStep

C25_ExpiredSessionUnseen ==
    [][/\ ListStep =>
            /\ \A e \in ret'.result.active_sessions : e.session_id \notin IdleSessions
            /\ ret'.result.total_sessions =
                   Cardinality(DOMAIN conversation_sessions \ IdleSessions)
       /\ (GetContextStep /\ ret'.session_id \in IdleSessions) =>
              ret'.result = Failure(ErrNoSession(ret'.session_id))
      ]_vars

\* a session made a query, the TTL passed, and the sessions were listed
C25_Witness ==
    /\ ret.op = "list_active_sessions"
    /\ ret.result.total_sessions = 0
    /\ pagination_state.last_sql # ""
    /\ now = CONTEXT_EXPIRE_TIME + 1
    /\ steps_left = MaxSteps - 3
    /\ DOMAIN conversation_sessions = {}

(***************************************************************************)
(* C26. Every gateway operation (query_data, next_page, prev_page,         *)
(* get_conversation_context, clear_conversation_context and                *)
(* list_active_sessions) first sweeps the expired sessions: after the      *)
(* operation no session idle for longer than the TTL is left in the store, *)
(* and clearing such a session answers that it does not exist.             *)
(***************************************************************************)
C26_EveryOperationSweeps ==
    [][GatewayStep =>
          /\ \A s \in IdleSessions :
                 s \in DOMAIN conversation_sessions' =>
                     now - conversation_sessions'[s].last_activity <= 3600
          /\ (ret'.op = "clear_conversation_context"
                  /\ ret'.session_id \in IdleSessions)
                 => ret'.result = Failure(ErrNoSession(ret'.session_id))]_vars

(***************************************************************************)
(* C27. clear_conversation_context(s) succeeds exactly when s is in the    *)
(* store, however long ago it was active; it removes s and leaves every    *)
(* other session as it was.  While s is absent get_conversation_context(s) *)
(* and another clear answer that s does not exist, and a query under s     *)
(* starts a session with one query counted and one item of history.        *)
(***************************************************************************)
ClearStep == ret'.op = "clear_conversation_context" /\ GatewayStep

C27_ClearRemovesOneSession ==
    [][/\ ClearStep =>
            LET s == ret'.session_id
            IN  /\ ret'.result.success <=> s \in DOMAIN conversation_sessions
                /\ ~ret'.result.success => ret'.result = Failure(ErrNoSession(s))
                /\ DOMAIN conversation_sessions' = DOMAIN conversation_sessions \ {s}
                /\ \A o \in DOMAIN conversation_sessions' :
                       conversation_sessions'[o] = conversation_sessions[o]
       /\ (GetContextStep /\ ret'.session_id \notin DOMAIN conversation_sessions) =>
              ret'.result = Failure(ErrNoSession(ret'.session_id))
       /\ (QueryStep /\ ret'.session_id \notin DOMAIN conversation_sessions) =>
              LET session == conversation_sessions'[ret'.session_id]
              IN  /\ session.metadata.total_queries = 1
                  /\ session.metadata.successful_queries
                         + session.metadata.failed_queries = 1
                  /\ session.metadata.created_at = now
                  /\ Len(session.context) = 1
      ]_vars

\* two sessions made a query and the first was cleared
C27_Witness ==
    /\ ret.op = "clear_conversation_context"
    /\ ret.result.success
    /\ ret.session_id = "s1"
    /\ DOMAIN conversation_sessions = {"s2"}
    /\ conversation_sessions["s2"].metadata.total_queries = 1

(***************************************************************************)
(* C28. A query recorded under one session id leaves every session with    *)
(* another id as it was: its history, its counters and its last activity;  *)
(* a session that has not expired stays in the store, and only the session *)
(* of the query gains an item.                                             *)
(***************************************************************************)
C28_SessionsIndependent ==
    [][QueryStep =>
          \A o \in DOMAIN conversation_sessions \ {ret'.session_id} :
              /\ o \notin IdleSessions => o \in DOMAIN conversation_sessions'
              /\ o \in DOMAIN conversation_sessions' =>
                     /\ conversation_sessions'[o].context = conversation_sessions[o].context
                     /\ conversation_sessions'[o].metadata = conversation_sessions[o].metadata
                     /\ conversation_sessions'[o].last_activity
                            = conversation_sessions[o].last_activity]_vars

\* the second query of one session after a query of the other
C28_Witness ==
    /\ IsQuery
    /\ ret.session_id = "s1"
    /\ DOMAIN conversation_sessions = {"s1", "s2"}
    /\ conversation_sessions["s1"].metadata.total_queries = 2
    /\ Len(conversation_sessions["s1"].context) = 2
    /\ conversation_sessions["s2"].metadata.total_queries = 1
    /\ Len(conversation_sessions["s2"].context) = 1

(***************************************************************************)
(* C29. No gateway operation raises: whatever the input and whatever the   *)
(* backing store does, the operation returns a result with a success flag, *)
(* and a failure carries an error string.                                  *)
(***************************************************************************)
C29_NoOperationRaises ==
    /\ ret.raised = ""
    /\ "success" \in DOMAIN ret.result
    /\ ~ret.result.success => "error" \in DOMAIN ret.result

(***************************************************************************)
(* C30. Two queries that run at the same time for one session id, also the *)
(* first two of a session that does not exist yet, are both recorded in    *)
(* the session the store holds under that id: once both have returned, its *)
(* history has gained two items and its total_queries has risen by two.    *)
(***************************************************************************)
C30_ConcurrentQueriesBothRecorded ==
    (\A t \in Threads : threads[t].pc = "done") =>
        LET session == session_objects[conversation_sessions[RaceSession]]
        IN  /\ Len(session.context) = 2
            /\ session.metadata.total_queries = 2
            /\ session.metadata.successful_queries = 1
            /\ session.metadata.failed_queries = 1

(***************************************************************************)
(* C31. Once a query has succeeded and its rows are materialized, no later *)
(* rejected or failed query empties the pager: next_page and prev_page do  *)
(* not answer "no previous results" after it.                              *)
(***************************************************************************)
C31_FailedQueryKeepsRows ==
    [][(QueryStep /\ ~ret'.result.success /\ Truthy(pagination_state.last_results))
          => /\ Truthy(pagination_state'.last_results)
             /\ next_page(pagination_state').result # Failure(ErrNoResults)
             /\ prev_page(pagination_state').result # Failure(ErrNoResults)]_vars

(***************************************************************************)
(* C32. The keyword gate matches mutation keywords as whole tokens: a      *)
(* statement that begins with a read-only word and holds mutation keywords *)
(* only inside longer identifiers (a column created_at, a table updates)   *)
(* is not rejected as not read-only.                                       *)
(***************************************************************************)
\* a mutation word occurs with no word character directly before or after it
HasMutationToken(sql) ==
    \E w \in MutationWords : \E i \in 1..Len(sql) :
        /\ OccursAt(sql, w, i)
        /\ ~IsWordAt(sql, i - 1)
        /\ ~IsWordAt(sql, i + Len(w))

MutationToken == [s \in AllSql |-> HasMutationToken(s)]

C32_KeywordsMatchWholeTokens ==
    (IsQuery /\ Facts[ret.sql].read_only /\ ~MutationToken[ret.sql])
        => ret.exit # "unsafe"

(***************************************************************************)
(* C33. The sweep removes only sessions idle for strictly more than the    *)
(* TTL: a session idle for the TTL or less is still in the store after an  *)
(* operation that sweeps, and the sweep leaves its history, counters and   *)
(* last activity as they were (a query then records into its own session   *)
(* only).                                                                  *)
(***************************************************************************)
\* the seconds since the last activity of session s
IdleFor(s) == now - conversation_sessions[s].last_activity

SweepingStep == QueryStep \/ ListStep \/ GetContextStep

C33_SweepRemovesOnlyExpired ==
    [][SweepingStep =>
          \A s \in DOMAIN conversation_sessions :
              /\ s \notin DOMAIN conversation_sessions' => IdleFor(s) > 3600
              /\ IdleFor(s) <= 3600 =>
                     /\ s \in DOMAIN conversation_sessions'
                     /\ (QueryStep /\ ret'.session_id = s)
                            => /\ conversation_sessions'[s].metadata.total_queries =
                                      conversation_sessions[s].metadata.total_queries + 1
                               /\ conversation_sessions'[s].metadata.created_at =
                                      conversation_sessions[s].metadata.created_at
                     /\ ~(QueryStep /\ ret'.session_id = s)
                            => conversation_sessions'[s] = conversation_sessions[s]
      ]_vars

\* a session idle for exactly the TTL is listed, as it was
C33_Witness ==
    /\ ret.op = "list_active_sessions"
    /\ now = 3600
    /\ ret.result.total_sessions = 1
    /\ "s1" \in DOMAIN conversation_sessions
    /\ conversation_sessions["s1"].last_activity = 0
    /\ conversation_sessions["s1"].metadata.total_queries = 1

(***************************************************************************)
(* C34. The page size held in the pagination state is positive in every    *)
(* reachable state: a query with page_size <= 0 stores no such page size   *)
(* and materializes no rows under it, and no next_page or prev_page ends   *)
(* in an arithmetic error.                                                 *)
(***************************************************************************)
C34_StoredPageSizePositive ==
    /\ pagination_state.page_size > 0
    /\ ret.op \in {"next_page", "prev_page"} => ret.raised = ""

(***************************************************************************)
(* C35. After every successful query_data, next_page or prev_page the      *)
(* stored cursor is the current_page reported in the pagination window of  *)
(* the response (so that a following next_page returns the page after the  *)
(* one last shown), also after a new statement queried with page > 0.      *)
(***************************************************************************)
C35_CursorIsPageShown ==
    (ServedPage /\ ret.result.pagination.current_page >= 0)
        => pagination_state.current_page = ret.result.pagination.current_page

(***************************************************************************)
(* C36. The page size next_page and prev_page use (the stored one) is the  *)
(* page size of the most recent successful query response, also when the   *)
(* same statement is queried again with another page size; navigation      *)
(* never changes it.                                                       *)
(***************************************************************************)
C36_NavigationUsesQueryPageSize ==
    /\ (IsQuery /\ ret.result.success /\ ret.result.pagination.current_page >= 0)
           => pagination_state.page_size = ret.result.pagination.page_size
    /\ (ServedPage /\ ~IsQuery)
           => pagination_state.page_size = ret.result.pagination.page_size

(***************************************************************************)
(* C37. For every session in the store, total_queries is the sum of        *)
(* successful_queries and failed_queries, none of the three is negative,   *)
(* and the history holds min(total_queries, 10) items.  Stated for the     *)
(* states in which no call of query_data is under way.                     *)
(***************************************************************************)
C37_CountersMatchHistory ==
    (\A t \in Threads : threads[t].pc = "done") =>
        \A s \in DOMAIN conversation_sessions :
            LET session == session_objects[conversation_sessions[s]]
            IN  /\ HistoryConsistent(session)
                /\ session.metadata.total_queries >= 0
                /\ session.metadata.successful_queries >= 0
                /\ session.metadata.failed_queries >= 0

(***************************************************************************)
(* C38. The last activity of a session changes only when a query is        *)
(* recorded into it: get_conversation_context, list_active_sessions,       *)
(* next_page and prev_page (and the passing of time) leave it as it was,   *)
(* and a query changes it for its own session only, to the time of the     *)
(* call.                                                                   *)
(***************************************************************************)
C38_OnlyQueriesTouchActivity ==
    [][\A s \in DOMAIN conversation_sessions \cap DOMAIN conversation_sessions' :
          IF QueryStep /\ ret'.session_id = s
          THEN conversation_sessions'[s].last_activity = now
          ELSE conversation_sessions'[s].last_activity =
                   conversation_sessions[s].last_activity
      ]_vars

\* a session read one TTL after its only query still has the activity of the query
C38_Witness ==
    /\ ret.op = "get_conversation_context"
    /\ ret.result.success
    /\ now = 3600
    /\ conversation_sessions[ret.session_id].last_activity = 0
    /\ ret.result.context.last_activity = 0

(***************************************************************************)
(* C39. When the injection classifier raises, the injection gate lets the  *)
(* statement through whatever signatures it matches: the query is not      *)
(* rejected as an injection, goes on to the sensitive-field filter, and is *)
(* executed if it passes that filter.                                      *)
(***************************************************************************)
ClassifierRaised == IsQuery /\ classifier = [did |-> "raise", consulted |-> TRUE]

C39_ClassifierFailureAdmits ==
    ClassifierRaised =>
        /\ ret.exit # "injection"
        /\ Facts[ret.sql].sensitive => ret.result = Failure(ErrSensitive)
        /\ ~Facts[ret.sql].sensitive =>
               /\ ret.exit \notin {"unsafe", "injection", "sensitive"}
               /\ \E i \in 1..Len(driver_calls) : driver_calls[i] = "execute"

\* a statement matching a signature is executed when the classifier raises
C39_Witness ==
    /\ ClassifierRaised
    /\ Facts[ret.sql].signature
    /\ ret.exit = "ok"
    /\ ret.result.success

(***************************************************************************)
(* C40. When query_data returns for a session, the session is in the store *)
(* and the newest item of its history is that query, also when the sweep   *)
(* of another caller ran while the query was under way.                    *)
(***************************************************************************)
\* thread t returns from query_data in this step
Returns(t) == threads[t].pc # "done" /\ threads'[t].pc = "done"

C40_SweepSparesSessionInUse ==
    [][\A t \in Threads :
          Returns(t) =>
              /\ threads[t].session_id \in DOMAIN conversation_sessions'
              /\ LET session ==
                         session_objects'[conversation_sessions'[threads[t].session_id]]
                     newest  == session.context[Len(session.context)]
                 IN  /\ Len(session.context) > 0
                     /\ newest.sql = RaceSql[t]
                     /\ newest.result = threads[t].result
      ]_vars

====
